---- MODULE Spec2Model ----
(***************************************************************************)
(* The ID manager of src/src/id_manager.rs (IDManager3, the Rc<T> attempt) *)
(* as a state machine: the next-ID counter, the forward index              *)
(* id_to_item : ID -> Rc<T>, the reverse index item_to_id : Rc<T> -> ID    *)
(* (hashed and compared through the T the Rc points to), and the heap of   *)
(* Rc allocations with their strong counts. Beside it: IDManager1 (driven   *)
(* with the same calls, SpecBoth), IDManager2 with its raw-pointer keys     *)
(* (Spec2), PermanentString of src/src/mem.rs (SpecP), and the parent and   *)
(* the child process of test_fork in src/src/unsafe_code.rs (SpecF).        *)
(***************************************************************************)
EXTENDS Integers, FiniteSets, Sequences, TLC

\* ---------------------------------------------------------------- bounds
\* usize::MAX, scaled down from 2^64 - 1 (2^32 - 1 on 32-bit targets) to that
\* of a 2-bit usize.
UsizeMax == 3
\* Number of distinct values of T the callers pass in.
NumValues == 2
\* Entries a HashMap holds in its first allocation; a table that is full
\* allocates a larger one and moves its entries there.
TableCap0 == 3
\* PermanentString objects the program creates.
MaxStrings == 3
\* Distinct texts they are made from.
NumTexts == 2
\* Lines of standard output that are recorded; what is written after them is
\* written but not recorded.
MaxLines == 5

IDs == 0..UsizeMax
Values == 1..NumValues
\* insert() calls explored: one full cycle of the counter and one more.
InsertCap == UsizeMax + 2
\* Rc allocations, named by the serial number of the Rc::new that made them.
Addr == 1..InsertCap

VARIABLES
    next_id,         \* IDManager3.next_id
    id_to_item,      \* IDManager3.id_to_item : ID -> Rc<T> (an address)
    item_to_id,      \* IDManager3.item_to_id : Rc<T> (an address) -> ID
    heap,            \* Rc allocations: address -> [val, strong]
    overflow_checks, \* the build: TRUE panics on integer overflow, FALSE wraps
    panicked,        \* the program has terminated by a panic
    op, arg, ret,    \* the last call: its name, argument and result
    warned,          \* lines the last call wrote to stderr
    expect,          \* what a call must return because of the call right before it
    issued,          \* IDs insert() has returned so far
    retired,         \* IDs whose value delete() has removed
    ninserts,        \* insert() calls made so far
    \* IDManager1 (the Clone attempt), driven with the same calls as IDManager3
    m1_next_id,      \* IDManager1.next_id
    m1_id_to_item,   \* IDManager1.id_to_item : ID -> T
    m1_item_to_id,   \* IDManager1.item_to_id : T -> ID
    m1_panicked,     \* the call on IDManager1 has panicked
    m1_ret,          \* the result of the last call on IDManager1
    \* IDManager2 (the raw-pointer attempt)
    m2_next_id,      \* IDManager2.next_id
    m2_fwd,          \* IDManager2.id_to_item : ID -> [val, born], the T stored in the table
    m2_table,        \* the allocation that holds the forward table's entries (0: none yet)
    m2_cap,          \* entries the forward table's allocation has room for
    m2_rev,          \* IDManager2.item_to_id : entries [ptr, tag, id], ptr a &T into m2_fwd
    m2_rcap,         \* entries the reverse table's allocation has room for
    m2_dangling,     \* the last call dereferenced a key that no longer points at its T
    m2_panicked,     \* the call on IDManager2 has panicked
    m2_ret,          \* the result of the last call on IDManager2
    m2_ninserts,     \* IDManager2::insert calls made so far
    \* PermanentString (mem.rs)
    ps_state,        \* each PermanentString: "none", "live" or "dropped"
    ps_box,          \* its Box<String>: [mem, s], mem "none", "allocated" or "freed"
    ps_refs,         \* the PermanentStrings a &'static str was handed out for
    ps_read,         \* what the last read through a reference gave
    \* test_fork (unsafe_code.rs), called by main
    fk_parent,       \* where the parent process is: "main", "fork", "hello", "pid",
                     \* "kill", "returned" or "panicked"
    fk_child,        \* where the child process is: "none", "hello", "loop", "killed"
                     \* (ended by the signal) or "panicked"
    fk_pending,      \* SIGTERM has been sent to the child and is not delivered yet
    fk_stdout,       \* the standard output both processes share: "open" or "closed"
    fk_out           \* the lines written to it, in order

vars3 == <<next_id, id_to_item, item_to_id, heap, overflow_checks, panicked,
           op, arg, ret, warned, expect, issued, retired, ninserts>>
vars1 == <<m1_next_id, m1_id_to_item, m1_item_to_id, m1_panicked, m1_ret>>
vars2 == <<m2_next_id, m2_fwd, m2_table, m2_cap, m2_rev, m2_rcap, m2_dangling,
           m2_panicked, m2_ret, m2_ninserts>>
varsP == <<ps_state, ps_box, ps_refs, ps_read>>
varsF == <<fk_parent, fk_child, fk_pending, fk_stdout, fk_out>>
vars == <<vars3, vars1, vars2, varsP, varsF>>

Strings == 1..MaxStrings

\* ---------------------------------------------------------------- Option
None == <<>>
Some(x) == <<x>>

\* ---------------------------------------------------------------- Rc<T>
FreeCell == [val |-> 0, strong |-> 0]

\* Rc::new(item): a fresh allocation holding item, strong count 1. The code
\* never looks at the address, only at whether two Rc are the same allocation,
\* so the n-th allocation is given address n.
RcNewAddr(n) == n + 1
RcNew(h, a, v) == [h EXCEPT ![a] = [val |-> v, strong |-> 1]]
\* Rc::clone: one more owner of the same allocation.
RcClone(h, a) == [h EXCEPT ![a].strong = @ + 1]
\* RcDrop as mem::forget: the owner goes without giving up its count.
RcDrop_Forget(h, a) == h
\* Drop of one Rc: the T is destroyed when the last owner goes.
RcDrop(h, a) == IF h[a].strong = 1 THEN [h EXCEPT ![a] = FreeCell] ELSE [h EXCEPT ![a].strong = @ - 1]

\* ---------------------------------------------------------------- HashMap
MapPut(m, k, v) == [x \in (DOMAIN m) \cup {k} |-> IF x = k THEN v ELSE m[x]]
MapRemove(m, k) == [x \in (DOMAIN m) \ {k} |-> m[x]]
\* The keys of the reverse index that equal item: Rc<T> hashes and compares
\* through its T, and a HashMap holds at most one key per equality class.
KeysEqual(m, h, item) == {k \in DOMAIN m : h[k].val = item}

\* ID::step: self.0 += 1 on a usize.
step(id) == (id + 1) % (UsizeMax + 1)

\* ---------------------------------------------------------------- lookups
\* The two lookups as functions of the indexes (rev, fwd) and the heap h.
LookupId(rev, h, item) == LET ks == KeysEqual(rev, h, item) IN IF ks = {} THEN None ELSE Some(rev[CHOOSE k \in ks : TRUE])
LookupItem(fwd, h, id) == IF id \in DOMAIN fwd THEN Some(h[fwd[id]].val) ELSE None
get_id(item) == LookupId(item_to_id, heap, item)
get_item(id) == LookupItem(id_to_item, heap, id)
\* The same lookups on the state a step leads to.
get_id_after(item) == LookupId(item_to_id', heap', item)
get_item_after(id) == LookupItem(id_to_item', heap', id)

\* ReverseInsert as entry(key).or_insert(value) would do it: an equal key
\* already present keeps its old value.
ReverseInsert_KeepOld(rev, h, a, id) == LET ks == KeysEqual(rev, h, h[a].val) IN IF ks = {} THEN MapPut(rev, a, id) ELSE rev

\* HashMap::insert(key, value) on the reverse index: with an equal key present
\* the value is updated and the stored key is kept; otherwise the pair is added.
ReverseInsert(rev, h, a, id) == LET ks == KeysEqual(rev, h, h[a].val) IN IF ks = {} THEN MapPut(rev, a, id) ELSE [rev EXCEPT ![CHOOSE k \in ks : TRUE] = id]

Call(o, a, r, w) == op' = o /\ arg' = a /\ ret' = r /\ warned' = w

Init ==
    /\ next_id = 0
    /\ id_to_item = <<>>
    /\ item_to_id = <<>>
    /\ heap = [a \in Addr |-> FreeCell]
    /\ overflow_checks \in BOOLEAN
    /\ panicked = FALSE
    /\ op = "new" /\ arg = 0 /\ ret = None /\ warned = 0
    /\ expect = None
    /\ issued = {} /\ retired = {} /\ ninserts = 0
    /\ m1_next_id = 0 /\ m1_id_to_item = <<>> /\ m1_item_to_id = <<>>
    /\ m1_panicked = FALSE /\ m1_ret = None
    /\ m2_next_id = 0 /\ m2_fwd = <<>> /\ m2_table = 0 /\ m2_cap = 0
    /\ m2_rev = {} /\ m2_rcap = 0 /\ m2_dangling = FALSE
    /\ m2_panicked = FALSE /\ m2_ret = None /\ m2_ninserts = 0
    /\ ps_state = [p \in Strings |-> "none"]
    /\ ps_box = [p \in Strings |-> [mem |-> "none", s |-> 0]]
    /\ ps_refs = {}
    /\ ps_read = None
    /\ fk_parent = "main" /\ fk_child = "none" /\ fk_pending = FALSE
    /\ fk_stdout = "open" /\ fk_out = <<>>

Insert(item) ==
    /\ ~panicked
    /\ ninserts < InsertCap
    /\ LET id == next_id
           a  == RcNewAddr(ninserts)
           h1 == RcClone(RcNew(heap, a, item), a)
           \* id_to_item.insert(id, item_ref.clone()): a value already stored
           \* under id is replaced and dropped
           h2 == IF id \in DOMAIN id_to_item THEN RcDrop(h1, id_to_item[id]) ELSE h1
           ks == KeysEqual(item_to_id, h2, item)
           \* item_to_id.insert(item_ref, id): with an equal key present the
           \* value is updated, the stored key is kept and item_ref is dropped
           h3 == IF ks = {} THEN h2 ELSE RcDrop(h2, a)
           overflow == next_id = UsizeMax
       IN  /\ id_to_item' = MapPut(id_to_item, id, a)
           /\ item_to_id' = ReverseInsert(item_to_id, h2, a, id)
           /\ heap' = h3
           /\ IF overflow /\ overflow_checks
              THEN /\ panicked' = TRUE
                   /\ next_id' = next_id
                   /\ Call("insert", item, None, 0)
                   /\ UNCHANGED issued
              ELSE /\ panicked' = FALSE
                   /\ next_id' = step(next_id)
                   /\ Call("insert", item, Some(id), 0)
                   /\ issued' = issued \cup {id}
    /\ ninserts' = ninserts + 1
    /\ expect' = None
    /\ UNCHANGED <<overflow_checks, retired>>

\* DeleteHit without the item_to_id.remove(item).
DeleteHit_KeepReverse(item, id) ==
    /\ id_to_item' = MapRemove(id_to_item, id)
    /\ heap' = IF id \in DOMAIN id_to_item THEN RcDrop(heap, id_to_item[id]) ELSE heap
    /\ Call("delete", item, Some(TRUE), 0)
    /\ retired' = retired \cup {id}
    /\ UNCHANGED item_to_id

DeleteHit(item, id) ==
    LET h1 == IF id \in DOMAIN id_to_item THEN RcDrop(heap, id_to_item[id]) ELSE heap
        k  == CHOOSE x \in KeysEqual(item_to_id, heap, item) : TRUE
    IN  /\ id_to_item' = MapRemove(id_to_item, id)
        /\ item_to_id' = MapRemove(item_to_id, k)
        /\ heap' = RcDrop(h1, k)
        /\ Call("delete", item, Some(TRUE), 0)
        /\ retired' = retired \cup {id}

\* DeleteMiss without the eprintln!.
DeleteMiss_Silent(item) ==
    /\ Call("delete", item, Some(FALSE), 0)
    /\ UNCHANGED <<id_to_item, item_to_id, heap, retired>>

DeleteMiss(item) ==
    /\ Call("delete", item, Some(FALSE), 1)
    /\ UNCHANGED <<id_to_item, item_to_id, heap, retired>>

Delete(item) ==
    /\ ~panicked
    /\ IF get_id(item) # None THEN DeleteHit(item, get_id(item)[1]) ELSE DeleteMiss(item)
    /\ expect' = IF op = "delete" /\ arg = item /\ ret = Some(TRUE) THEN Some(FALSE) ELSE None
    /\ UNCHANGED <<next_id, overflow_checks, panicked, issued, ninserts>>

\* GetId with a diagnostic when the value is absent.
GetId_WarnOnMiss(item) ==
    /\ ~panicked
    /\ Call("get_id", item, get_id(item), IF get_id(item) = None THEN 1 ELSE 0)
    /\ expect' = IF op = "insert" /\ arg = item THEN ret ELSE None
    /\ UNCHANGED <<next_id, id_to_item, item_to_id, heap, overflow_checks, panicked, issued, retired, ninserts>>

GetId(item) ==
    /\ ~panicked
    /\ Call("get_id", item, get_id(item), 0)
    /\ expect' = IF op = "insert" /\ arg = item THEN ret ELSE None
    /\ UNCHANGED <<next_id, id_to_item, item_to_id, heap, overflow_checks, panicked, issued, retired, ninserts>>

GetItem(id) ==
    /\ ~panicked
    /\ Call("get_item", id, get_item(id), 0)
    /\ expect' = IF op = "insert" /\ ret = Some(id) THEN Some(arg) ELSE None
    /\ UNCHANGED <<next_id, id_to_item, item_to_id, heap, overflow_checks, panicked, issued, retired, ninserts>>

\* IDManager3 alone: the other structures of the repository are not touched.
DoInsert == \E item \in Values : Insert(item) /\ UNCHANGED <<vars1, vars2, varsP, varsF>>
DoDelete == \E item \in Values : Delete(item) /\ UNCHANGED <<vars1, vars2, varsP, varsF>>
DoGetId == \E item \in Values : GetId(item) /\ UNCHANGED <<vars1, vars2, varsP, varsF>>
DoGetItem == \E id \in IDs : GetItem(id) /\ UNCHANGED <<vars1, vars2, varsP, varsF>>

Next == DoInsert \/ DoDelete \/ DoGetId \/ DoGetItem

Spec == Init /\ [][Next]_vars

\* ------------------------------------------------------------ IDManager1
\* IDManager1::insert as an entry(item).or_insert(id) on the reverse index
\* would do it: an item already present keeps its old ID.
Insert1_KeepOld(item) ==
    /\ ~m1_panicked
    /\ m1_id_to_item' = MapPut(m1_id_to_item, m1_next_id, item)
    /\ m1_item_to_id' = IF item \in DOMAIN m1_item_to_id THEN m1_item_to_id ELSE MapPut(m1_item_to_id, item, m1_next_id)
    /\ IF m1_next_id = UsizeMax /\ overflow_checks
       THEN m1_panicked' = TRUE /\ m1_next_id' = m1_next_id /\ m1_ret' = None
       ELSE m1_panicked' = FALSE /\ m1_next_id' = step(m1_next_id) /\ m1_ret' = Some(m1_next_id)

\* IDManager1::insert: the forward index gets a clone of the item, the reverse
\* index the item itself, both through HashMap::insert.
Insert1(item) ==
    /\ ~m1_panicked
    /\ m1_id_to_item' = MapPut(m1_id_to_item, m1_next_id, item)
    /\ m1_item_to_id' = MapPut(m1_item_to_id, item, m1_next_id)
    /\ IF m1_next_id = UsizeMax /\ overflow_checks
       THEN m1_panicked' = TRUE /\ m1_next_id' = m1_next_id /\ m1_ret' = None
       ELSE m1_panicked' = FALSE /\ m1_next_id' = step(m1_next_id) /\ m1_ret' = Some(m1_next_id)

\* IDManager1::get_id and get_item.
get_id1(item) == IF item \in DOMAIN m1_item_to_id THEN Some(m1_item_to_id[item]) ELSE None
get_item1(id) == IF id \in DOMAIN m1_id_to_item THEN Some(m1_id_to_item[id]) ELSE None

Delete1(item) ==
    /\ ~m1_panicked
    /\ IF get_id1(item) # None
       THEN /\ m1_id_to_item' = MapRemove(m1_id_to_item, get_id1(item)[1])
            /\ m1_item_to_id' = MapRemove(m1_item_to_id, item)
            /\ m1_ret' = Some(TRUE)
       ELSE /\ m1_ret' = Some(FALSE)
            /\ UNCHANGED <<m1_id_to_item, m1_item_to_id>>
    /\ UNCHANGED <<m1_next_id, m1_panicked>>

GetId1(item) ==
    /\ ~m1_panicked
    /\ m1_ret' = get_id1(item)
    /\ UNCHANGED <<m1_next_id, m1_id_to_item, m1_item_to_id, m1_panicked>>

GetItem1(id) ==
    /\ ~m1_panicked
    /\ m1_ret' = get_item1(id)
    /\ UNCHANGED <<m1_next_id, m1_id_to_item, m1_item_to_id, m1_panicked>>

\* The same call made on an IDManager3 and on an IDManager1.
BothInsert == \E item \in Values : Insert(item) /\ Insert1(item) /\ UNCHANGED <<vars2, varsP, varsF>>
BothDelete == \E item \in Values : Delete(item) /\ Delete1(item) /\ UNCHANGED <<vars2, varsP, varsF>>
BothGetId == \E item \in Values : GetId(item) /\ GetId1(item) /\ UNCHANGED <<vars2, varsP, varsF>>
BothGetItem == \E id \in IDs : GetItem(id) /\ GetItem1(id) /\ UNCHANGED <<vars2, varsP, varsF>>

NextBoth == BothInsert \/ BothDelete \/ BothGetId \/ BothGetItem

SpecBoth == Init /\ [][NextBoth]_vars

\* ------------------------------------------------------------ IDManager2
\* The room of the allocation a full table moves to.
NextCap(c) == IF c = 0 THEN TableCap0 ELSE 2 * c + 1

\* id_to_item.insert(id, item): a new key put into a full table makes the table
\* allocate anew and move every entry; an existing key has its T replaced.
FwdInsert2(fwd, table, cap, id, item, born) ==
    LET grow == id \notin DOMAIN fwd /\ Cardinality(DOMAIN fwd) = cap
    IN  [fwd   |-> MapPut(fwd, id, [val |-> item, born |-> born]),
         table |-> IF grow THEN table + 1 ELSE table,
         cap   |-> IF grow THEN NextCap(cap) ELSE cap]

\* A &T taken from the forward table still points at its T: the table has not
\* moved its entries and the T is still stored there.
PtrValid(fwd, table, ptr) ==
    /\ ptr.table = table
    /\ ptr.id \in DOMAIN fwd
    /\ fwd[ptr.id].born = ptr.born

\* A probe of the reverse table for item: the keys whose stored hash matches
\* are dereferenced and compared until one is equal. A key that still points
\* at its T is equal; the comparison through a dangling key has no defined
\* result. The outcomes: the entry found (hit, at most one) and whether a
\* dangling key was dereferenced.
Probe(rev, fwd, table, item) ==
    LET C == {e \in rev : e.tag = item}
        V == {e \in C : PtrValid(fwd, table, e.ptr)}
        D == C \ V
    IN  {[hit |-> {e}, dangling |-> FALSE] : e \in V}
        \cup {[hit |-> {e}, dangling |-> TRUE] : e \in IF D = {} THEN {} ELSE C}
        \cup (IF V = {} THEN {[hit |-> {}, dangling |-> D # {}]} ELSE {})

Insert2(item) ==
    /\ ~m2_panicked
    /\ m2_ninserts < InsertCap
    /\ LET id   == m2_next_id
           born == m2_ninserts + 1
           f    == FwdInsert2(m2_fwd, m2_table, m2_cap, id, item, born)
           \* item_ref_raw: the address of the T just stored
           ptr  == [table |-> f.table, id |-> id, born |-> born]
       IN  \E o \in Probe(m2_rev, f.fwd, f.table, item) :
             \* item_to_id.insert(item_ref, id): an equal key keeps its place
             \* and gets the new id; a new key in a full table makes the table
             \* hash every key again, dereferencing each
             LET grow == o.hit = {} /\ Cardinality(m2_rev) = m2_rcap
             IN  /\ m2_fwd' = f.fwd /\ m2_table' = f.table /\ m2_cap' = f.cap
                 /\ m2_rev' = IF o.hit = {}
                              THEN m2_rev \cup {[ptr |-> ptr, tag |-> item, id |-> id]}
                              ELSE (m2_rev \ o.hit) \cup {[ptr |-> e.ptr, tag |-> e.tag, id |-> id] : e \in o.hit}
                 /\ m2_rcap' = IF grow THEN NextCap(m2_rcap) ELSE m2_rcap
                 /\ m2_dangling' = (o.dangling \/ (grow /\ \E e \in m2_rev : ~PtrValid(f.fwd, f.table, e.ptr)))
    /\ IF m2_next_id = UsizeMax /\ overflow_checks
       THEN m2_panicked' = TRUE /\ m2_next_id' = m2_next_id /\ m2_ret' = None
       ELSE m2_panicked' = FALSE /\ m2_next_id' = step(m2_next_id) /\ m2_ret' = Some(m2_next_id)
    /\ m2_ninserts' = m2_ninserts + 1

Delete2(item) ==
    /\ ~m2_panicked
    /\ \E o1 \in Probe(m2_rev, m2_fwd, m2_table, item) :
         IF o1.hit # {}
         THEN LET id == (CHOOSE e \in o1.hit : TRUE).id
                  \* id_to_item.remove(&id): the T is taken out and dropped
                  f  == MapRemove(m2_fwd, id)
              IN  \* item_to_id.remove(item): a second probe, after the removal
                  \E o2 \in Probe(m2_rev, f, m2_table, item) :
                     /\ m2_fwd' = f
                     /\ m2_rev' = m2_rev \ o2.hit
                     /\ m2_dangling' = (o1.dangling \/ o2.dangling)
                     /\ m2_ret' = Some(TRUE)
         ELSE /\ m2_ret' = Some(FALSE)
              /\ m2_dangling' = o1.dangling
              /\ UNCHANGED <<m2_fwd, m2_rev>>
    /\ UNCHANGED <<m2_next_id, m2_table, m2_cap, m2_rcap, m2_panicked, m2_ninserts>>

GetId2(item) ==
    /\ ~m2_panicked
    /\ \E o \in Probe(m2_rev, m2_fwd, m2_table, item) :
         /\ m2_ret' = IF o.hit = {} THEN None ELSE Some((CHOOSE e \in o.hit : TRUE).id)
         /\ m2_dangling' = o.dangling
    /\ UNCHANGED <<m2_next_id, m2_fwd, m2_table, m2_cap, m2_rev, m2_rcap, m2_panicked, m2_ninserts>>

GetItem2(id) ==
    /\ ~m2_panicked
    /\ m2_ret' = IF id \in DOMAIN m2_fwd THEN Some(m2_fwd[id].val) ELSE None
    /\ m2_dangling' = FALSE
    /\ UNCHANGED <<m2_next_id, m2_fwd, m2_table, m2_cap, m2_rev, m2_rcap, m2_panicked, m2_ninserts>>

Do2Insert == \E item \in Values : Insert2(item) /\ UNCHANGED <<vars3, vars1, varsP, varsF>>
Do2Delete == \E item \in Values : Delete2(item) /\ UNCHANGED <<vars3, vars1, varsP, varsF>>
Do2GetId == \E item \in Values : GetId2(item) /\ UNCHANGED <<vars3, vars1, varsP, varsF>>
Do2GetItem == \E id \in IDs : GetItem2(id) /\ UNCHANGED <<vars3, vars1, varsP, varsF>>

Next2 == Do2Insert \/ Do2Delete \/ Do2GetId \/ Do2GetItem

Spec2 == Init /\ [][Next2]_vars

\* ------------------------------------------------------- PermanentString
\* The strings a PermanentString is made from.
Texts == 1..NumTexts

\* PermanentString::new(s): the contents are boxed and contents_ptr points
\* into the box.
PSNew(p, s) ==
    /\ ps_state[p] = "none"
    /\ ps_state' = [ps_state EXCEPT ![p] = "live"]
    /\ ps_box' = [ps_box EXCEPT ![p] = [mem |-> "allocated", s |-> s]]
    /\ ps_read' = None
    /\ UNCHANGED ps_refs

\* get_temporary_reference: a borrow of the contents, read while p is live.
PSGetTemporaryReference(p) ==
    /\ ps_state[p] = "live"
    /\ ps_read' = Some(ps_box[p].s)
    /\ UNCHANGED <<ps_state, ps_box, ps_refs>>

\* get_permanent_reference: contents_ptr as a &'static str.
PSGetPermanentReference(p) ==
    /\ ps_state[p] = "live"
    /\ ps_refs' = ps_refs \cup {p}
    /\ ps_read' = None
    /\ UNCHANGED <<ps_state, ps_box>>

\* A PermanentString goes out of scope: Drop::drop runs (its body is empty),
\* then every field is dropped in turn, the Box<String> with its contents; the
\* raw pointer has nothing to drop.
PSDrop(p) ==
    /\ ps_state[p] = "live"
    /\ ps_state' = [ps_state EXCEPT ![p] = "dropped"]
    /\ ps_box' = [ps_box EXCEPT ![p] = [mem |-> "freed", s |-> 0]]
    /\ ps_read' = None
    /\ UNCHANGED ps_refs

\* The program reads through a permanent reference. Reading freed memory has
\* no defined result: any text, or 0 for a crash.
PSUse(p) ==
    /\ p \in ps_refs
    /\ IF ps_box[p].mem = "allocated"
       THEN ps_read' = Some(ps_box[p].s)
       ELSE \E t \in Texts \cup {0} : ps_read' = Some(t)
    /\ UNCHANGED <<ps_state, ps_box, ps_refs>>

DoPSNew == \E p \in Strings, s \in Texts : PSNew(p, s) /\ UNCHANGED <<vars3, vars1, vars2, varsF>>
DoPSGetTemporaryReference == \E p \in Strings : PSGetTemporaryReference(p) /\ UNCHANGED <<vars3, vars1, vars2, varsF>>
DoPSGetPermanentReference == \E p \in Strings : PSGetPermanentReference(p) /\ UNCHANGED <<vars3, vars1, vars2, varsF>>
DoPSDrop == \E p \in Strings : PSDrop(p) /\ UNCHANGED <<vars3, vars1, vars2, varsF>>
DoPSUse == \E p \in Strings : PSUse(p) /\ UNCHANGED <<vars3, vars1, vars2, varsF>>

NextP == DoPSNew \/ DoPSGetTemporaryReference \/ DoPSGetPermanentReference \/ DoPSDrop \/ DoPSUse

SpecP == Init /\ [][NextP]_vars

\* ---------------------------------------------------------------- test_fork
\* main prints its banner and calls test_fork; fork makes the child, a copy of
\* the parent that shares its standard output. Each process is a sequence of
\* steps, one per call that another process can observe; the two interleave
\* freely.
Lines == {"banner", "parent", "pid", "child", "loopy"}
\* A line written to standard output.
Record(out, line) == IF Len(out) < MaxLines THEN Append(out, line) ELSE out

ChildAlive == fk_child \in {"hello", "loop"}
ChildTerminated == fk_child \in {"killed", "panicked"}

\* println! in the parent: the line is written and the parent goes on to `to`;
\* println! panics when the write fails, which ends the process.
ParentPrintln(at, line, to) ==
    /\ fk_parent = at
    /\ IF fk_stdout = "open"
       THEN fk_out' = Record(fk_out, line) /\ fk_parent' = to
       ELSE fk_out' = fk_out /\ fk_parent' = "panicked"
    /\ UNCHANGED <<fk_child, fk_pending, fk_stdout>>

\* main: println!("CIS198 Lecture 8: Systems Programming"), then test_fork().
MainBanner == ParentPrintln("main", "banner", "fork")

\* unistd::fork() returned Ok: the parent goes on in the Parent arm, the child
\* starts in the Child arm. The banner was a whole line, so the line-buffered
\* stdout holds nothing the child could write a second time.
ForkOk ==
    /\ fk_parent = "fork"
    /\ fk_parent' = "hello" /\ fk_child' = "hello"
    /\ UNCHANGED <<fk_pending, fk_stdout, fk_out>>

\* unistd::fork() returned Err: unwrap() panics, and there is no child.
ForkErr ==
    /\ fk_parent = "fork"
    /\ fk_parent' = "panicked"
    /\ UNCHANGED <<fk_child, fk_pending, fk_stdout, fk_out>>

ParentHello == ParentPrintln("hello", "parent", "pid")
ParentPid == ParentPrintln("pid", "pid", "kill")

\* ParentKill without the signal: the parent returns and sends nothing.
ParentKill_NoSignal ==
    /\ fk_parent = "kill"
    /\ fk_parent' = "returned"
    /\ UNCHANGED <<fk_child, fk_pending, fk_stdout, fk_out>>

\* signal::kill(child_pid, Signal::SIGTERM): the signal becomes pending for
\* the child if it still runs. The parent never waits for the child, so the
\* pid still names it when it has ended already, and kill returns Ok; then
\* test_fork and main return.
ParentKill ==
    /\ fk_parent = "kill"
    /\ fk_pending' = ChildAlive
    /\ fk_parent' = "returned"
    /\ UNCHANGED <<fk_child, fk_stdout, fk_out>>

\* println! in the child, as in the parent.
ChildPrintln(at, line, to) ==
    /\ fk_child = at
    /\ IF fk_stdout = "open"
       THEN fk_out' = Record(fk_out, line) /\ fk_child' = to
       ELSE fk_out' = fk_out /\ fk_child' = "panicked"
    /\ UNCHANGED <<fk_parent, fk_pending, fk_stdout>>

ChildHello == ChildPrintln("hello", "child", "loop")
\* One turn of loop { println!("loopy"); }.
ChildLoop == ChildPrintln("loop", "loopy", "loop")

\* The kernel delivers the pending SIGTERM to the child. Neither the code nor
\* the Rust runtime installs a handler for it, ignores it or blocks it, and
\* the program is started with the signal at its default: its default action
\* ends the process, wherever the child is.
Deliver ==
    /\ fk_pending /\ ChildAlive
    /\ fk_child' = "killed" /\ fk_pending' = FALSE
    /\ UNCHANGED <<fk_parent, fk_stdout, fk_out>>

\* The reader of standard output goes away (a closed pipe): every later write
\* to it fails, in both processes.
StdoutClose ==
    /\ fk_stdout = "open"
    /\ fk_stdout' = "closed"
    /\ UNCHANGED <<fk_parent, fk_child, fk_pending, fk_out>>

ParentStep == (MainBanner \/ ForkOk \/ ForkErr \/ ParentHello \/ ParentPid \/ ParentKill) /\ UNCHANGED <<vars3, vars1, vars2, varsP>>
ChildStep == (ChildHello \/ ChildLoop) /\ UNCHANGED <<vars3, vars1, vars2, varsP>>
DoDeliver == Deliver /\ UNCHANGED <<vars3, vars1, vars2, varsP>>
DoStdoutClose == StdoutClose /\ UNCHANGED <<vars3, vars1, vars2, varsP>>

NextF == ParentStep \/ ChildStep \/ DoDeliver \/ DoStdoutClose

\* Both processes are runnable whenever they have a step to take, and the
\* scheduler runs every runnable process again and again; a pending signal is
\* delivered when its target is next scheduled. A write to standard output
\* returns, with the line written or with an error; its reader may go away at
\* any time or never.
SpecF == Init /\ [][NextF]_vars /\ WF_vars(ParentStep) /\ WF_vars(ChildStep) /\ WF_vars(DoDeliver)


TypeOK ==
    /\ next_id \in IDs
    /\ DOMAIN id_to_item \subseteq IDs
    /\ DOMAIN item_to_id \subseteq Addr
    /\ \A a \in Addr : heap[a].strong \in 0..2
    /\ \A k1, k2 \in DOMAIN item_to_id : heap[k1].val = heap[k2].val => k1 = k2
\* ---------------------------------------------------------------- claims
\* The IDs the reverse index maps some key to.
ReverseIds(rev) == {rev[k] : k \in DOMAIN rev}

\* C1: the forward and the reverse index are inverses of each other: they have
\* the same number of entries, and every id that lookup_value resolves to v is
\* the id lookup_id gives for v.
C1_Bijection ==
    /\ Cardinality(DOMAIN id_to_item) = Cardinality(DOMAIN item_to_id)
    /\ \A id \in DOMAIN id_to_item : get_id(get_item(id)[1]) = Some(id)

\* C2: insert(v) with a value equal to v present under old_id returns new_id
\* and leaves old_id unresolvable and in neither index, new_id resolving to v,
\* and v resolving to new_id.
C2_ReplacePolicy ==
    [][\A v \in Values :
         (get_id(v) # None /\ Insert(v) /\ ~panicked') =>
            /\ get_item_after(get_id(v)[1]) = None
            /\ get_id(v)[1] \notin DOMAIN id_to_item'
            /\ get_id(v)[1] \notin ReverseIds(item_to_id')
            /\ get_item_after(ret'[1]) = Some(v)
            /\ get_id_after(v) = ret']_vars

\* C3: the next-ID counter never decreases, and every insert returns an ID
\* strictly greater than every ID returned by an earlier insert.
C3_Monotonic ==
    [][/\ next_id' >= next_id
       /\ \A v \in Values :
            (Insert(v) /\ ~panicked') => \A i \in issued : i < ret'[1]]_vars

\* C4: no insert returns an ID whose value was removed earlier.
C4_NoReuse ==
    [][\A v \in Values : (Insert(v) /\ ~panicked') => ret'[1] \notin retired]_vars

\* C5: remove(v) with a value equal to v present returns true, leaves
\* lookup_id(v) absent and no ID resolving to a value equal to v, and does not
\* change the next-ID counter.
C5_RemovePresent ==
    [][\A v \in Values :
         (get_id(v) # None /\ Delete(v)) =>
            /\ ret' = Some(TRUE)
            /\ get_id_after(v) = None
            /\ \A id \in IDs : get_item_after(id) # Some(v)
            /\ next_id' = next_id]_vars
\* C6: remove(v) with no value equal to v present returns false, writes exactly
\* one warning line and leaves both indexes and the next-ID counter unchanged.
C6_RemoveAbsent ==
    [][\A v \in Values :
         (get_id(v) = None /\ Delete(v)) =>
            /\ ret' = Some(FALSE)
            /\ warned' = 1
            /\ UNCHANGED <<id_to_item, item_to_id, next_id>>]_vars

\* A remove of an absent value has returned, on a manager that holds other values.
C6_Witness ==
    /\ op = "delete" /\ ret = Some(FALSE) /\ warned = 1
    /\ get_id(arg) = None
    /\ DOMAIN item_to_id # {}

\* C7: the Rc held by a forward-index entry and the Rc that is the key of the
\* reverse-index entry of the same association are the same allocation.
C7_SharedStorage ==
    \A k \in DOMAIN item_to_id :
        item_to_id[k] \in DOMAIN id_to_item => id_to_item[item_to_id[k]] = k

\* C8: a new manager has counter zero and empty indexes; every insert returns
\* the counter value held before the call and raises the counter by exactly
\* one, so the k-th insert returns ID k; remove and the lookups leave the
\* counter alone.
C8_CounterDiscipline ==
    [][/\ op = "new" => (next_id = 0 /\ id_to_item = <<>> /\ item_to_id = <<>>)
       /\ \A v \in Values :
            (Insert(v) /\ ~panicked') =>
                (ret' = Some(next_id) /\ next_id' = next_id + 1 /\ ret' = Some(ninserts))
       /\ \A v \in Values : (Delete(v) \/ GetId(v)) => next_id' = next_id
       /\ \A id \in IDs : GetItem(id) => next_id' = next_id]_vars

\* C9: a lookup_id(v) made right after insert(v) returned id yields Some(id),
\* and a lookup_value(id) made right after it yields a value equal to v.
C9_RoundTrip ==
    (op \in {"get_id", "get_item"} /\ expect # None) => ret = expect

\* lookup_id(v) has returned right after an insert(v) of a value that was
\* already present under an older ID.
C9_Witness ==
    /\ op = "get_id" /\ expect # None /\ ret = expect
    /\ \E id \in DOMAIN id_to_item : id # ret[1] /\ get_item(id) = Some(arg)

\* C10: an insert made while the counter holds the maximum value is refused
\* (changes nothing) or terminates the program; the counter never wraps to a
\* smaller value and no insert returns an ID that was issued before.
C10_NoSilentWrap ==
    [][\A v \in Values :
         Insert(v) =>
            /\ next_id = UsizeMax =>
                  (panicked' \/ UNCHANGED <<next_id, id_to_item, item_to_id>>)
            /\ next_id' >= next_id
            /\ ~panicked' => ret'[1] \notin issued]_vars
\* ------------------------------------------- short of ID-space exhaustion
\* What remains of the counter properties while the counter has not yet
\* reached usize::MAX: there the IDs are strictly increasing, none is issued
\* twice, and the k-th insert returns k.
BelowExhaustion_Counter ==
    [][\A v \in Values :
         (Insert(v) /\ ninserts < UsizeMax) =>
            /\ ret' = Some(ninserts)
            /\ next_id' = next_id + 1
            /\ \A i \in issued : i < ret'[1]
            /\ ret'[1] \notin retired]_vars
\* -------------------------------------------------------- claims C11..C17
\* C11: with a value equal to v present, remove(v) returns true, and a second
\* remove(v) made right after it returns false and leaves both indexes as the
\* first call left them.
C11_IdempotentRemove ==
    [][\A v \in Values :
         /\ (get_id(v) # None /\ Delete(v)) => ret' = Some(TRUE)
         /\ (op = "delete" /\ arg = v /\ ret = Some(TRUE) /\ Delete(v)) =>
               (ret' = Some(FALSE) /\ UNCHANGED <<id_to_item, item_to_id>>)]_vars

\* The second of two consecutive removes of the same value has returned.
C11_Witness ==
    op = "delete" /\ expect = Some(FALSE) /\ ret = Some(FALSE) /\ get_id(arg) = None
\* C12: every value that lookup_id resolves to an id is the value that
\* lookup_value gives for that id.
C12_IndexSymmetry ==
    \A v \in Values : get_id(v) # None => get_item(get_id(v)[1]) = Some(v)

\* C14: an issued ID that lookup_value does not resolve stays unresolved in
\* every later state.
C14_RetiredStaysRetired ==
    [][\A id \in issued : get_item(id) = None => get_item_after(id) = None]_vars

\* C16: insert(v) and remove(v) leave the association of every other value w
\* as it was: lookup_id(w) and lookup_value of the ID it returns are unchanged.
C16_Frame ==
    [][\A v \in Values :
         (Insert(v) \/ Delete(v)) =>
            \A w \in Values \ {v} :
               /\ get_id_after(w) = get_id(w)
               /\ get_id(w) # None =>
                     get_item_after(get_id(w)[1]) = get_item(get_id(w)[1])]_vars

\* C17: while the program runs, every forward-index key and every
\* reverse-index value is smaller than the next-ID counter, and lookup_value
\* is absent for every id from the counter upwards.
C17_IssuedRange ==
    ~panicked =>
        /\ \A id \in DOMAIN id_to_item : id < next_id
        /\ \A id \in ReverseIds(item_to_id) : id < next_id
        /\ \A id \in IDs : id >= next_id => get_item(id) = None

\* What remains of C12, C14, C16 and C17 while no insert has been made with a
\* counter that wrapped.
BelowExhaustion_Indexes ==
    ninserts <= UsizeMax =>
        /\ C12_IndexSymmetry
        /\ \A id \in DOMAIN id_to_item : id < ninserts
        /\ \A id \in ReverseIds(item_to_id) : id < ninserts
        /\ next_id = ninserts
BelowExhaustion_Steps ==
    [][ninserts <= UsizeMax =>
         /\ \A id \in issued : get_item(id) = None => get_item_after(id) = None
         /\ \A v \in Values :
              (Insert(v) \/ Delete(v)) =>
                 \A w \in Values \ {v} :
                    /\ get_id_after(w) = get_id(w)
                    /\ get_id(w) # None =>
                          get_item_after(get_id(w)[1]) = get_item(get_id(w)[1])]_vars
\* Index entries that hold the allocation a: forward values and reverse keys.
EntriesOf(fwd, rev, a) == Cardinality({id \in DOMAIN fwd : fwd[id] = a}) + (IF a \in DOMAIN rev THEN 1 ELSE 0)

\* C13: the live handles of every allocation are as many as the index entries
\* that reference it, an allocation no entry references is not alive, and an
\* allocation is destroyed in the step that removes its last entry, once.
C13_ValueLifetime ==
    [][\A a \in Addr :
         /\ heap[a].strong = EntriesOf(id_to_item, item_to_id, a)
         /\ heap'[a].strong = EntriesOf(id_to_item', item_to_id', a)
         /\ heap'[a].strong = 0 => heap'[a] = FreeCell
         /\ (a <= ninserts /\ heap[a].strong = 0) => heap'[a].strong = 0]_vars

\* One stored value has been destroyed and another is kept alive by a single
\* index entry.
C13_Witness ==
    \E a, b \in Addr :
        /\ a <= ninserts /\ heap[a] = FreeCell
        /\ heap[b].strong = 1 /\ EntriesOf(id_to_item, item_to_id, b) = 1

\* C15: the lookups change neither index nor the counter and write no
\* diagnostic, and on a manager fresh from new() they return absent.
C15_LookupsPure ==
    [][/\ \A v \in Values :
            GetId(v) =>
               /\ UNCHANGED <<id_to_item, item_to_id, heap, next_id>>
               /\ warned' = 0
               /\ op = "new" => ret' = None
       /\ \A id \in IDs :
            GetItem(id) =>
               /\ UNCHANGED <<id_to_item, item_to_id, heap, next_id>>
               /\ warned' = 0
               /\ op = "new" => ret' = None]_vars

\* lookup_id has returned absent on a manager that never held a value.
C15_Witness ==
    op = "get_id" /\ ret = None /\ ninserts = 0 /\ id_to_item = <<>> /\ item_to_id = <<>>
\* --------------------------------------------------------------- claim C18
\* C18: every call made on an IDManager1 and on an IDManager3 that received
\* the same calls before returns the same result on both (or panics on both).
C18_SameResults ==
    m1_ret = ret /\ m1_panicked = panicked

\* A lookup has returned the same value on both managers after an insert of a
\* value that was already present.
C18_Witness ==
    /\ op = "get_item" /\ ret # None /\ m1_ret = ret
    /\ Cardinality(DOMAIN m1_id_to_item) > Cardinality(DOMAIN m1_item_to_id)
    /\ Cardinality(DOMAIN id_to_item) > Cardinality(DOMAIN item_to_id)
\* --------------------------------------------------------------- claim C19
\* C19: no call on an IDManager2 dereferences a reverse-index key that no
\* longer points at a value stored where the reference was taken: not get_id,
\* not insert, not the second removal of delete, not after the forward table
\* has grown.
C19_KeysValidWhenRead ==
    ~m2_dangling

\* The reverse index holds a key that the growth of the forward table has
\* left pointing into the old allocation.
C19_KeyIntoOldTable ==
    \E e \in m2_rev : e.ptr.table # m2_table /\ e.ptr.id \in DOMAIN m2_fwd
\* --------------------------------------------------------------- claim C20
\* C20: every reference handed out by get_permanent_reference points to
\* contents that are still allocated, also after the PermanentString it came
\* from was dropped.
C20_PermanentRefsValid ==
    \A p \in ps_refs : ps_box[p].mem = "allocated"
\* --------------------------------------------------------------- claim C21
\* C21: in every execution of test_fork in which fork succeeds, the child
\* process eventually terminates, whatever the interleaving of the parent and
\* the child: whether the parent's SIGTERM reaches the child before or after
\* it has printed its greeting.
C21_ChildTerminates ==
    [](fk_child # "none" => <>ChildTerminated)

\* The signal has ended a child that had printed its greeting and was in its
\* loop.
C21_Witness ==
    /\ fk_child = "killed" /\ fk_parent = "returned"
    /\ \E i, j \in 1..Len(fk_out) : i < j /\ fk_out[i] = "child" /\ fk_out[j] = "loopy"

\* The signal has ended a child that had not printed its greeting yet.
C21_KilledBeforeGreeting ==
    /\ fk_child = "killed"
    /\ \A i \in 1..Len(fk_out) : fk_out[i] # "child"

\* While standard output stays open the child ends in no other way than by
\* the parent's signal, and the signal is pending only after the parent has
\* sent it.
C21_OnlyTheSignalEndsIt ==
    /\ fk_stdout = "open" /\ ChildTerminated => fk_child = "killed"
    /\ fk_child = "killed" \/ fk_pending => fk_parent = "returned"
====
